---- MODULE Spec2Model ----
(***************************************************************************)
(* Model of logger.go: MultilineLogger, an http.Handler that logs each     *)
(* request and response through a redacting Logger facade, and the two     *)
(* wrappers it installs (multilineLoggerReadCloser on the request body,    *)
(* multilineLoggerResponseWriter on the response writer).                  *)
(*                                                                         *)
(* Strings are sequences of one-character strings, so that formatting,     *)
(* slicing and redaction are computed character by character.  Every call  *)
(* into the sink (Logger.Output) is one step; the calls of one exchange    *)
(* are taken in program order from todo[e], and steps of different         *)
(* exchanges interleave freely.                                            *)
(***************************************************************************)
EXTENDS Integers, Sequences, FiniteSets, TLC

\* ---------------------------------------------------------------- bounds
NumExchanges == 2      \* exchanges that may be served (concurrently)
MaxOps == 2            \* calls on the wrappers and direct calls of the facade,
                       \* one exchange alone
MaxOpsConc == 2        \* calls on the wrappers of all exchanges together,
                       \* when several are served
MaxLog == 8            \* lines the log may hold: a call starts only if its
                       \* lines and those of the calls in progress fit
MaxLogConc == 6        \* the same, when several exchanges are served
BufLen == 2            \* length of the buffer the handler passes to Read

Exchanges == 1..NumExchanges

\* ---------------------------------------------------------------- text
Digits == <<"0", "1", "2", "3", "4", "5", "6", "7", "8", "9">>

RECURSIVE Itoa(_)
Itoa(n) == IF n < 10 THEN <<Digits[n + 1]>>
           ELSE Itoa(n \div 10) \o <<Digits[(n % 10) + 1]>>

RECURSIVE Concat(_)
Concat(ss) == IF ss = <<>> THEN <<>> ELSE Head(ss) \o Concat(Tail(ss))

RECURSIVE Join(_)
Join(ss) == IF ss = <<>> THEN <<>>
            ELSE IF Len(ss) = 1 THEN Head(ss)
            ELSE Head(ss) \o <<" ">> \o Join(Tail(ss))

\* fmt verbs used by the code: %s takes a string, %d an integer
FormatArg(verb, v) == IF verb = "d" THEN Itoa(v) ELSE v

RECURSIVE Sprintf(_, _)
Sprintf(format, v) ==
    IF format = <<>> THEN <<>>
    ELSE IF Head(format) = "%" /\ Len(format) >= 2 /\ v # <<>>
         THEN FormatArg(format[2], Head(v))
              \o Sprintf(SubSeq(format, 3, Len(format)), Tail(v))
         ELSE <<Head(format)>> \o Sprintf(Tail(format), v)

\* all operands here are strings: Sprint adds no space, Sprintln adds
\* one between operands and a newline at the end
Sprint(v) == Concat(v)
Sprintln(v) == Join(v) \o <<"\n">>

StatusOK == 200

StatusText(code) ==
    CASE code = StatusOK -> <<"O", "K">>
      [] code = 404 -> <<"N", "o", "t", " ", "F", "o", "u", "n", "d">>
      [] OTHER -> <<>>

\* the three formats of ServeHTTP and WriteHeader
FmtRequestLine == <<"%", "s", " ", ">", " ", "%", "s", " ", "%", "s", " ", "%", "s">>
FmtStatusLine == <<"%", "s", " ", "<", " ", "%", "s", " ", "%", "d", " ", "%", "s">>
FmtHeader(dir) == <<"%", "s", " ", dir, " ", "%", "s", ":", " ", "%", "s">>

\* ---------------------------------------------------------------- redaction
\* a Redactor the caller may configure: upper-cases the text
ToUpper(c) ==
    CASE c = "a" -> "A" [] c = "b" -> "B" [] c = "k" -> "K" [] c = "l" -> "L"
      [] c = "o" -> "O" [] c = "r" -> "R" [] c = "t" -> "T" [] c = "u" -> "U"
      [] c = "n" -> "N" [] c = "d" -> "D" [] c = "v" -> "V" [] c = "w" -> "W"
      [] c = "x" -> "X"
      [] OTHER -> c

UpperRedactor(s) == [i \in 1..Len(s) |-> ToUpper(s[i])]

Redactors == {"nil", "upper"}

\* ---------------------------------------------------------------- inputs
NoHeader == [name \in {} |-> <<>>]

\* http.Header: a map from a name to the list of its values
HdrTwoValues == (<<"k">> :> << <<"v">>, <<"w">> >>) @@ (<<"n">> :> << >>)
HdrTwoNames == (<<"k">> :> << <<"v">> >>) @@ (<<"l">> :> << <<"w">> >>)
HdrType == (<<"t">> :> << <<"x">> >>)

GET == <<"G", "E", "T">>
Proto == <<"H", "/", "1">>

\* a request together with the writer it is served on
Scenarios == {
    [method |-> GET, uri |-> <<"/">>, proto |-> Proto, header |-> NoHeader,
     respHeader |-> NoHeader, canFlush |-> TRUE],
    [method |-> GET, uri |-> <<"/", "a">>, proto |-> Proto, header |-> HdrTwoValues,
     respHeader |-> HdrType, canFlush |-> FALSE],
    [method |-> GET, uri |-> <<"/">>, proto |-> Proto, header |-> HdrTwoNames,
     respHeader |-> NoHeader, canFlush |-> TRUE] }

NoScenario == [method |-> <<>>, uri |-> <<>>, proto |-> <<>>, header |-> NoHeader,
               respHeader |-> NoHeader, canFlush |-> FALSE]

\* the orders in which a range over the map h may visit its names
Orders(h) == {o \in [1..Cardinality(DOMAIN h) -> DOMAIN h] :
                 \A i, j \in DOMAIN o : i # j => o[i] # o[j]}

\* what the underlying body may answer to one Read: the bytes it stored at
\* the front of the buffer, and the error
ReadResults == {
    [data |-> <<>>, err |-> "nil"],
    [data |-> <<>>, err |-> "EOF"],
    [data |-> <<"a">>, err |-> "nil"],
    [data |-> <<"a", "b">>, err |-> "EOF"],
    [data |-> <<"b">>, err |-> "ERR"] }

\* the chunks a handler writes
Chunks == { <<>>, <<"a">>, <<"a", "\n">>, <<"\n", "\n">> }

\* what the underlying writer may answer to Write(p)
WriteResults(p) == { [n |-> Len(p), err |-> "nil"], [n |-> 0, err |-> "EPIPE"] }

\* the codes a handler passes to WriteHeader
Codes == {StatusOK, 404}

\* what the sink's Output may answer
SinkErrors == {"nil", "EIO"}

\* identifiers the identifier source may hand out
IDPool == { <<"r", Digits[k + 1]>> : k \in Exchanges }
NoID == <<>>

\* strings passed to the facade by callers other than ServeHTTP
DirectText == <<"o", "u", "t">>

\* the buffer the handler passes to Read, before the call
FreshBuf == [i \in 1..BufLen |-> "?"]

\* ---------------------------------------------------------------- state
VARIABLES
    redactor,      \* MultilineLogger.redactor: "nil" or the name of a Redactor
    sink,          \* MultilineLogger.Logger: "ok", or "faulty" when its Output
                   \* may return an error
    pc,            \* per exchange: "new", "serve" (in ServeHTTP), "handler",
                   \* "done"; "absent" when the exchange never arrives
    requestID,     \* per exchange: the requestID held by both wrappers
    request,       \* per exchange: the request and writer being served
    wroteHeader,   \* per exchange: multilineLoggerResponseWriter.wroteHeader
    todo,          \* per exchange: the remaining steps of the call in progress
    calls,         \* per exchange: the calls the handler made on the wrappers
    rets,          \* per exchange: what those calls returned to the handler
    under,         \* per exchange: the calls that reached the wrapped objects
    log,           \* the lines handed to Logger.Output of the sink, in order
    idCalls,       \* per exchange: invocations of RequestIDCreator
    handlerCalls,  \* per exchange: invocations of l.handler.ServeHTTP
    sinkFailed,    \* some call of the sink's Output has returned an error
    direct,        \* number of direct calls of the facade made so far
    lastDirect     \* the last direct call: its method, what the sink
                   \* answered and what the caller got back

vars == <<redactor, sink, pc, requestID, request, wroteHeader, todo, calls, rets,
          under, log, idCalls, handlerCalls, sinkFailed, direct, lastDirect>>

exVars == <<pc, requestID, request, wroteHeader, todo, calls, rets, under,
            idCalls, handlerCalls>>

NoDirect == [via |-> "none", sink |-> "nil", ret |-> "none"]

\* Logged: the handler, the redactor and the identifier source are set once
Start ==
    /\ requestID = [e \in Exchanges |-> NoID]
    /\ request = [e \in Exchanges |-> NoScenario]
    /\ wroteHeader = [e \in Exchanges |-> FALSE]
    /\ todo = [e \in Exchanges |-> <<>>]
    /\ calls = [e \in Exchanges |-> <<>>]
    /\ rets = [e \in Exchanges |-> <<>>]
    /\ under = [e \in Exchanges |-> <<>>]
    /\ log = <<>>
    /\ idCalls = [e \in Exchanges |-> 0]
    /\ handlerCalls = [e \in Exchanges |-> 0]
    /\ sinkFailed = FALSE
    /\ direct = 0
    /\ lastDirect = NoDirect

\* one exchange is served, with any redactor and a sink that may fail on
\* any call, or on none
Init ==
    /\ redactor \in Redactors
    /\ sink = "faulty"
    /\ pc = [e \in Exchanges |-> IF e = 1 THEN "new" ELSE "absent"]
    /\ Start

\* all the exchanges are served, through a sink that writes every line
InitConc ==
    /\ redactor = "nil"
    /\ sink = "ok"
    /\ pc = [e \in Exchanges |-> "new"]
    /\ Start

\* ---------------------------------------------------------------- facade
\* an Output that forgets the redactor
OutputNoRedactor(s) == s

\* MultilineLogger.Output: the text that reaches l.Logger.Output
Output(s) == IF redactor # "nil" THEN UpperRedactor(s) ELSE s

\* a pending call l.Output(2, s) made by Print, Printf or Println
OutputCall(via, s) ==
    [k |-> "log", via |-> via, s |-> s, code |-> 0, p |-> <<>>, what |-> "direct"]

\* the same call, labelled with the kind of line it writes (the label is
\* not part of the text)
As(what, c) == [c EXCEPT !.what = what]

\* MultilineLogger.Print (the name Print is taken by the TLC module)
LoggerPrint(v) == OutputCall("Print", Sprint(v))
Printf(format, v) == OutputCall("Printf", Sprintf(format, v))
Println(v) == OutputCall("Println", Sprintln(v))

\* a facade that gives up the rest of the call when the sink fails
AfterEmitAbort(rest, err) == IF err # "nil" THEN <<>> ELSE rest

\* Print, Printf and Println drop the error of Output: the caller goes on
\* with the rest of its steps whatever the sink answered
AfterEmit(rest, err) == rest

\* what a direct caller of the facade gets back
DirectReturn(via, err) == IF via = "Output" THEN err ELSE "none"

LogEntry(e, c) ==
    [ex |-> e, via |-> c.via, what |-> c.what, raw |-> c.s, out |-> Output(c.s)]

\* ---------------------------------------------------------------- wrappers
RECURSIVE ValueLines(_, _, _, _)
ValueLines(id, dir, name, values) ==
    IF values = <<>> THEN <<>>
    ELSE <<As(IF dir = ">" THEN "reqhdr" ELSE "resphdr",
              Printf(FmtHeader(dir), <<id, name, Head(values)>>))>>
         \o ValueLines(id, dir, name, Tail(values))

\* for name, values := range h { for _, value := range values { Printf } }
RECURSIVE HeaderLines(_, _, _, _)
HeaderLines(id, dir, h, order) ==
    IF order = <<>> THEN <<>>
    ELSE ValueLines(id, dir, Head(order), h[Head(order)])
         \o HeaderLines(id, dir, h, Tail(order))

DelegateStep ==
    [k |-> "handler", via |-> "", s |-> <<>>, code |-> 0, p |-> <<>>, what |-> ""]
UnderWriteHeaderStep(code) ==
    [k |-> "hdr", via |-> "", s |-> <<>>, code |-> code, p |-> <<>>, what |-> ""]
\* a Write that forwards the chunk as it logs it, without its last newline
UnderWriteStepStripped(p) ==
    [k |-> "wr", via |-> "", s |-> <<>>, code |-> 0, what |-> "",
     p |-> IF Len(p) > 0 /\ p[Len(p)] = "\n" THEN SubSeq(p, 1, Len(p) - 1) ELSE p]

\* w.ResponseWriter.Write(p)
UnderWriteStep(p) ==
    [k |-> "wr", via |-> "", s |-> <<>>, code |-> 0, p |-> p, what |-> ""]

\* a ServeHTTP that hands over to the handler before the separator is logged
ServeStepsDelegateEarly(id, r, order) ==
    <<As("reqline", Printf(FmtRequestLine, <<id, r.method, r.uri, r.proto>>))>>
    \o HeaderLines(id, ">", r.header, order)
    \o <<DelegateStep, As("reqsep", Println(<<id, <<">">> >>))>>

\* the steps of ServeHTTP after the identifier was obtained
ServeSteps(id, r, order) ==
    <<As("reqline", Printf(FmtRequestLine, <<id, r.method, r.uri, r.proto>>))>>
    \o HeaderLines(id, ">", r.header, order)
    \o <<As("reqsep", Println(<<id, <<">">> >>)), DelegateStep>>

\* a Read whose wrapper was built without its requestID
ReadStepsNoID(id, p, n) ==
    IF 0 < n THEN <<As("inchunk", Println(<<NoID, <<">">>, SubSeq(p, 1, n)>>))>>
    ELSE <<>>

\* a Read that logs whatever n is
ReadStepsAlways(id, p, n) ==
    <<As("inchunk", Println(<<id, <<">">>, SubSeq(p, 1, n)>>))>>

\* a Read that logs the whole buffer, whatever n is
ReadStepsWholeBuffer(id, p, n) ==
    IF 0 < n THEN <<As("inchunk", Println(<<id, <<">">>, p>>))>>
    ELSE <<>>

\* multilineLoggerReadCloser.Read after the underlying read returned n bytes
\* in p
ReadSteps(id, p, n) ==
    IF 0 < n THEN <<As("inchunk", Println(<<id, <<">">>, SubSeq(p, 1, n)>>))>>
    ELSE <<>>

\* a Read that keeps the error back when it has bytes to return
ReadReturnNoErr(n, err) == [n |-> n, err |-> IF 0 < n THEN "nil" ELSE err]

\* a Read that returns no bytes when it returns an error
ReadReturnZeroOnErr(n, err) == [n |-> IF err # "nil" THEN 0 ELSE n, err |-> err]

\* return n, err
ReadReturn(n, err) == [n |-> n, err |-> err]

\* a WriteHeader that logs the blank separator ahead of the status line
WriteHeaderStepsSepFirst(id, r, code, order) ==
    <<As("respsep", Println(<<id, <<"<">> >>)),
      As("status", Printf(FmtStatusLine, <<id, r.proto, code, StatusText(code)>>))>>
    \o HeaderLines(id, "<", r.respHeader, order)
    \o <<UnderWriteHeaderStep(code)>>

\* multilineLoggerResponseWriter.WriteHeader
WriteHeaderSteps(id, r, code, order) ==
    <<As("status", Printf(FmtStatusLine, <<id, r.proto, code, StatusText(code)>>))>>
    \o HeaderLines(id, "<", r.respHeader, order)
    \o <<As("respsep", Println(<<id, <<"<">> >>)), UnderWriteHeaderStep(code)>>

\* a chunk line that drops every trailing newline of the chunk
RECURSIVE TrimNewlines(_)
TrimNewlines(p) ==
    IF Len(p) > 0 /\ p[Len(p)] = "\n" THEN TrimNewlines(SubSeq(p, 1, Len(p) - 1))
    ELSE p
ChunkLineTrimAll(id, p) == As("outchunk", Println(<<id, <<"<">>, TrimNewlines(p)>>))

\* the line of a chunk in multilineLoggerResponseWriter.Write
ChunkLine(id, p) ==
    IF Len(p) > 0 /\ p[Len(p)] = "\n"
    THEN As("outchunk", Println(<<id, <<"<">>, SubSeq(p, 1, Len(p) - 1)>>))
    ELSE As("outchunk", Println(<<id, <<"<">>, p>>))

\* a Write that logs its chunk before it commits the header
WriteStepsChunkFirst(id, r, wrote, p, order) ==
    <<ChunkLine(id, p)>>
    \o (IF ~wrote THEN WriteHeaderSteps(id, r, StatusOK, order) ELSE <<>>)
    \o <<UnderWriteStep(p)>>

\* a Write that commits the header without looking at the flag
WriteStepsAlwaysCommit(id, r, wrote, p, order) ==
    WriteHeaderSteps(id, r, StatusOK, order) \o <<ChunkLine(id, p), UnderWriteStep(p)>>

\* a Write that hands the chunk to the original writer before it logs it
WriteStepsForwardFirst(id, r, wrote, p, order) ==
    (IF ~wrote THEN WriteHeaderSteps(id, r, StatusOK, order) ELSE <<>>)
    \o <<UnderWriteStep(p), ChunkLine(id, p)>>

\* multilineLoggerResponseWriter.Write
WriteSteps(id, r, wrote, p, order) ==
    (IF ~wrote THEN WriteHeaderSteps(id, r, StatusOK, order) ELSE <<>>)
    \o <<ChunkLine(id, p), UnderWriteStep(p)>>

\* a flag kept in the logger, shared by the writers of all exchanges
SetWroteHeaderShared(wh, e) == [x \in DOMAIN wh |-> TRUE]

\* w.wroteHeader = true, on the writer of exchange e
SetWroteHeader(wh, e) == [wh EXCEPT ![e] = TRUE]

\* ---------------------------------------------------------------- helpers
Last(q) == q[Len(q)]

\* order: the order in which the call ranged over w.Header()
Call(op, p, code, order) == [op |-> op, p |-> p, code |-> code, order |-> order]
Ret(n, err, buf) == [n |-> n, err |-> err, buf |-> buf]
UnderCall(op, p, code, n, err) ==
    [op |-> op, p |-> p, code |-> code, n |-> n, err |-> err]

NoRet == Ret(0, "none", <<>>)

\* one exchange is served alone (see Init)
Alone == \E x \in Exchanges : pc[x] = "absent"

RECURSIVE TotalCalls(_)
TotalCalls(e) == IF e = 0 THEN 0 ELSE Len(calls[e]) + TotalCalls(e - 1)

\* the handler of exchange e is running and is not inside a call
Ready(e) ==
    /\ pc[e] = "handler"
    /\ todo[e] = <<>>
    /\ IF Alone THEN Len(calls[e]) + direct < MaxOps
                ELSE TotalCalls(NumExchanges) < MaxOpsConc

\* the Output calls among the steps
OutputCalls(steps) == SelectSeq(steps, LAMBDA c : c.k = "log")

RECURSIVE Pending(_)
Pending(e) == IF e = 0 THEN 0 ELSE Len(OutputCalls(todo[e])) + Pending(e - 1)

\* the lines the log may hold in this run
LogBound == IF Alone THEN MaxLog ELSE MaxLogConc

\* the log has room for one line more
RoomForOne == Len(log) + Pending(NumExchanges) < LogBound

\* the log has room for the lines of these steps
Room(steps) ==
    Len(log) + Pending(NumExchanges) + Len(OutputCalls(steps)) <= LogBound

\* RequestIDCreator returns a unique RequestID: one no exchange holds.  The
\* identifiers are opaque, so the first free one of the pool stands for any.
\* what Logger.Output of the sink may answer now
SinkAnswers == IF sink = "faulty" THEN SinkErrors ELSE {"nil"}

RequestIDCreator ==
    LET free == {k \in Exchanges :
                    <<"r", Digits[k + 1]>> \notin {requestID[x] : x \in Exchanges}}
    IN {<<"r", Digits[k + 1]>> : k \in {k \in free : \A j \in free : k <= j}}

\* a Flush that calls Flush on the original writer without asking whether
\* it is a Flusher
FlushUnderAlways(canFlush) == <<UnderCall("Flush", <<>>, 0, 0, "none")>>

\* a Flush that commits the header on the original writer before flushing
FlushUnderCommitting(canFlush) ==
    <<UnderCall("WriteHeader", <<>>, StatusOK, 0, "none")>>
    \o (IF canFlush THEN <<UnderCall("Flush", <<>>, 0, 0, "none")>> ELSE <<>>)

\* if f, ok := w.ResponseWriter.(http.Flusher); ok { f.Flush() }
FlushUnder(canFlush) ==
    IF canFlush THEN <<UnderCall("Flush", <<>>, 0, 0, "none")>> ELSE <<>>

\* return w.ResponseWriter.Write(p)
WriteReturn(res) == Ret(res.n, res.err, <<>>)

\* ---------------------------------------------------------------- actions
\* MultilineLogger.ServeHTTP is called for a new exchange (exchanges are
\* numbered in their order of arrival)
ServeHTTP(e, r, id) ==
    /\ pc[e] = "new"
    /\ \A x \in 1..(e - 1) : pc[x] # "new"
    /\ RoomForOne
    /\ pc' = [pc EXCEPT ![e] = "serve"]
    /\ requestID' = [requestID EXCEPT ![e] = id]
    /\ idCalls' = [idCalls EXCEPT ![e] = @ + 1]
    /\ request' = [request EXCEPT ![e] = r]
    /\ \E order \in Orders(r.header) :
          /\ Room(ServeSteps(id, r, order))
          /\ todo' = [todo EXCEPT ![e] = ServeSteps(id, r, order)]
    /\ UNCHANGED <<redactor, sink, wroteHeader, calls, rets, under, log,
                   handlerCalls, sinkFailed, direct, lastDirect>>

\* the next l.Output(2, s) of exchange e: the redacted text goes to the
\* sink, whose answer err is dropped
DoOutput(e, err) ==
    /\ err \in SinkAnswers
    /\ todo[e] # <<>>
    /\ Head(todo[e]).k = "log"
    /\ log' = Append(log, LogEntry(e, Head(todo[e])))
    /\ sinkFailed' = (sinkFailed \/ err # "nil")
    /\ LET rest == AfterEmit(Tail(todo[e]), err)
       IN /\ todo' = [todo EXCEPT ![e] = rest]
          /\ rets' = IF rest = <<>> /\ pc[e] = "handler"
                     THEN [rets EXCEPT ![e] = Append(@,
                            IF Last(calls[e]).op = "Read"
                            THEN Ret(ReadReturn(Last(under[e]).n, Last(under[e]).err).n,
                                     ReadReturn(Last(under[e]).n, Last(under[e]).err).err,
                                     Last(under[e]).p)
                            ELSE NoRet)]
                     ELSE rets
    /\ UNCHANGED <<redactor, sink, pc, requestID, request, wroteHeader, calls, under,
                   idCalls, handlerCalls, direct, lastDirect>>

\* l.handler.ServeHTTP(&multilineLoggerResponseWriter{...}, r)
DoDelegate(e) ==
    /\ todo[e] # <<>>
    /\ Head(todo[e]).k = "handler"
    /\ pc' = [pc EXCEPT ![e] = "handler"]
    /\ handlerCalls' = [handlerCalls EXCEPT ![e] = @ + 1]
    /\ todo' = [todo EXCEPT ![e] = Tail(@)]
    /\ UNCHANGED <<redactor, sink, requestID, request, wroteHeader, calls, rets,
                   under, log, idCalls, sinkFailed, direct, lastDirect>>

\* the handler calls r.Body.Read(p); the underlying read answers res
Read(e, res) ==
    /\ Ready(e)
    /\ Len(res.data) <= BufLen
    /\ LET n == Len(res.data)
           p == res.data \o SubSeq(FreshBuf, n + 1, BufLen)
           steps == ReadSteps(requestID[e], p, n)
       IN /\ calls' = [calls EXCEPT ![e] = Append(@, Call("Read", FreshBuf, 0, <<>>))]
          /\ under' = [under EXCEPT ![e] = Append(@, UnderCall("Read", p, 0, n, res.err))]
          /\ Room(steps)
          /\ todo' = [todo EXCEPT ![e] = steps]
          /\ rets' = IF steps = <<>>
                     THEN [rets EXCEPT ![e] = Append(@,
                            Ret(ReadReturn(n, res.err).n, ReadReturn(n, res.err).err, p))]
                     ELSE rets
    /\ UNCHANGED <<redactor, sink, pc, requestID, request, wroteHeader, log, idCalls,
                   handlerCalls, sinkFailed, direct, lastDirect>>

\* the handler calls w.Write(p)
Write(e, p) ==
    /\ Ready(e)
    /\ RoomForOne
    /\ \E order \in Orders(request[e].respHeader) :
          /\ Room(WriteSteps(requestID[e], request[e], wroteHeader[e], p, order))
          /\ calls' = [calls EXCEPT ![e] = Append(@, Call("Write", p, 0, order))]
          /\ todo' = [todo EXCEPT ![e] =
                  WriteSteps(requestID[e], request[e], wroteHeader[e], p, order)]
    /\ wroteHeader' = IF ~wroteHeader[e] THEN SetWroteHeader(wroteHeader, e)
                      ELSE wroteHeader
    /\ UNCHANGED <<redactor, sink, pc, requestID, request, rets, under, log, idCalls,
                   handlerCalls, sinkFailed, direct, lastDirect>>

\* the handler calls w.WriteHeader(code)
WriteHeader(e, code) ==
    /\ Ready(e)
    /\ RoomForOne
    /\ wroteHeader' = SetWroteHeader(wroteHeader, e)
    /\ \E order \in Orders(request[e].respHeader) :
          /\ Room(WriteHeaderSteps(requestID[e], request[e], code, order))
          /\ calls' = [calls EXCEPT ![e] =
                          Append(@, Call("WriteHeader", <<>>, code, order))]
          /\ todo' = [todo EXCEPT ![e] =
                  WriteHeaderSteps(requestID[e], request[e], code, order)]
    /\ UNCHANGED <<redactor, sink, pc, requestID, request, rets, under, log, idCalls,
                   handlerCalls, sinkFailed, direct, lastDirect>>

\* w.ResponseWriter.WriteHeader(code), the last step of WriteHeader
DoUnderWriteHeader(e) ==
    /\ todo[e] # <<>>
    /\ Head(todo[e]).k = "hdr"
    /\ under' = [under EXCEPT ![e] =
                   Append(@, UnderCall("WriteHeader", <<>>, Head(todo[e]).code, 0, "none"))]
    /\ todo' = [todo EXCEPT ![e] = Tail(@)]
    /\ rets' = IF Tail(todo[e]) = <<>>
               THEN [rets EXCEPT ![e] = Append(@, NoRet)]
               ELSE rets
    /\ UNCHANGED <<redactor, sink, pc, requestID, request, wroteHeader, calls, log,
                   idCalls, handlerCalls, sinkFailed, direct, lastDirect>>

\* return w.ResponseWriter.Write(p), the last step of Write; the underlying
\* writer answers res
DoUnderWrite(e, res) ==
    /\ todo[e] # <<>>
    /\ Head(todo[e]).k = "wr"
    /\ res \in WriteResults(Head(todo[e]).p)
    /\ under' = [under EXCEPT ![e] =
                   Append(@, UnderCall("Write", Head(todo[e]).p, 0, res.n, res.err))]
    /\ todo' = [todo EXCEPT ![e] = Tail(@)]
    /\ rets' = [rets EXCEPT ![e] = Append(@, WriteReturn(res))]
    /\ UNCHANGED <<redactor, sink, pc, requestID, request, wroteHeader, calls, log,
                   idCalls, handlerCalls, sinkFailed, direct, lastDirect>>

\* the handler calls w.Flush()
Flush(e) ==
    /\ Ready(e)
    /\ calls' = [calls EXCEPT ![e] = Append(@, Call("Flush", <<>>, 0, <<>>))]
    /\ under' = [under EXCEPT ![e] = @ \o FlushUnder(request[e].canFlush)]
    /\ rets' = [rets EXCEPT ![e] = Append(@, NoRet)]
    /\ UNCHANGED <<redactor, sink, pc, requestID, request, wroteHeader, todo, log,
                   idCalls, handlerCalls, sinkFailed, direct, lastDirect>>

\* the wrapped handler returns, and ServeHTTP with it
HandlerReturn(e) ==
    /\ pc[e] = "handler"
    /\ todo[e] = <<>>
    /\ pc' = [pc EXCEPT ![e] = "done"]
    /\ UNCHANGED <<redactor, sink, requestID, request, wroteHeader, todo, calls, rets,
                   under, log, idCalls, handlerCalls, sinkFailed, direct, lastDirect>>

\* a caller other than ServeHTTP uses the facade, before the exchange
\* arrives: c is the pending call
Direct(c, err) ==
    /\ err \in SinkAnswers
    /\ direct < MaxOps
    /\ \A e \in Exchanges : pc[e] \in {"new", "absent"}
    /\ Room(<<c>>)
    /\ direct' = direct + 1
    /\ log' = Append(log, LogEntry(0, c))
    /\ sinkFailed' = (sinkFailed \/ err # "nil")
    /\ lastDirect' = [via |-> c.via, sink |-> err, ret |-> DirectReturn(c.via, err)]
    /\ UNCHANGED <<redactor, sink, exVars, wroteHeader>>

\* the direct calls: l.Output(2, "out"), l.Print("out", "x"),
\* l.Printf("%s=%d", "out", 7), l.Println("out", "x")
DirectCalls == {
    OutputCall("Output", DirectText),
    LoggerPrint(<<DirectText, <<"x">> >>),
    Printf(<<"%", "s", "=", "%", "d">>, <<DirectText, 7>>),
    Println(<<DirectText, <<"x">> >>) }

ExchangeNext ==
    \/ \E e \in Exchanges, r \in Scenarios, id \in RequestIDCreator :
          ServeHTTP(e, r, id)
    \/ \E e \in Exchanges, err \in SinkErrors : DoOutput(e, err)
    \/ \E e \in Exchanges : DoDelegate(e)
    \/ \E e \in Exchanges, res \in ReadResults : Read(e, res)
    \/ \E e \in Exchanges, p \in Chunks : Write(e, p)
    \/ \E e \in Exchanges, code \in Codes : WriteHeader(e, code)
    \/ \E e \in Exchanges : DoUnderWriteHeader(e)
    \/ \E e \in Exchanges, res \in UNION {WriteResults(p) : p \in Chunks} :
          DoUnderWrite(e, res)
    \/ \E e \in Exchanges : Flush(e)
    \/ \E e \in Exchanges : HandlerReturn(e)

Next ==
    \/ ExchangeNext
    \/ \E c \in DirectCalls, err \in SinkErrors : Direct(c, err)

Spec == Init /\ [][Next]_vars

SpecConc == InitConc /\ [][ExchangeNext]_vars

\* ---------------------------------------------------------------- properties
\* the lines of kind what that exchange e has logged
LinesOf(e, what) == SelectSeq(log, LAMBDA l : l.ex = e /\ l.what = what)

\* the steps of kind what still to be logged by the call in progress
PendingOf(e, what) == SelectSeq(todo[e], LAMBDA c : c.k = "log" /\ c.what = what)

CallsOf(e, op) == SelectSeq(calls[e], LAMBDA c : c.op = op)
UnderOf(e, op) == SelectSeq(under[e], LAMBDA c : c.op = op)

\* the number of header lines a range over h writes
NumValues(h) == Len(HeaderLines(<<>>, "<", h, CHOOSE o \in Orders(h) : TRUE))

\* C1: in an exchange whose handler has called Write or WriteHeader, and is
\* not inside a call, the response block is in the log exactly once: one
\* status line and one blank '<id> <' separator, however many times the
\* handler called WriteHeader.
C1_HeaderBlockOnce ==
    \A e \in Exchanges :
        (todo[e] = <<>> /\ CallsOf(e, "Write") \o CallsOf(e, "WriteHeader") # <<>>)
        => /\ Len(LinesOf(e, "status")) = 1
           /\ Len(LinesOf(e, "respsep")) = 1

\* C2: every response chunk line in the log comes after the status line,
\* the response header lines and the blank separator of its exchange.
C2_BlockBeforeChunk ==
    \A i \in 1..Len(log) :
        log[i].what = "outchunk"
        => \E j \in 1..(i - 1), k \in 1..(i - 1) :
              /\ j < k
              /\ log[j].ex = log[i].ex /\ log[j].what = "status"
              /\ log[k].ex = log[i].ex /\ log[k].what = "respsep"
              /\ Cardinality({m \in (j + 1)..(k - 1) :
                                 log[m].ex = log[i].ex /\ log[m].what = "resphdr"})
                 = NumValues(request[log[i].ex].respHeader)

\* C2 witness: the first call of the handler was a Write, the writer has a
\* header to log, and the chunk line is in the log.
C2_Witness ==
    \E e \in Exchanges :
        /\ calls[e] # <<>> /\ calls[e][1].op = "Write"
        /\ request[e].respHeader # NoHeader
        /\ LinesOf(e, "outchunk") # <<>>

\* C3: a Write of an empty p leaves no chunk line: once the handler is out
\* of its call, the exchange has as many chunk lines as Writes of a
\* non-empty p.
C3_EmptyWriteNoLine ==
    \A e \in Exchanges :
        todo[e] = <<>>
        => Len(LinesOf(e, "outchunk"))
           = Len(SelectSeq(calls[e], LAMBDA c : c.op = "Write" /\ c.p # <<>>))

\* C4: Read logs a line if and only if the underlying read returned n > 0:
\* the inbound chunk lines logged or about to be logged are as many as the
\* underlying reads that returned n > 0, whatever error came with them.
C4_ReadLogsIffNonEmpty ==
    \A e \in Exchanges :
        Len(LinesOf(e, "inchunk")) + Len(PendingOf(e, "inchunk"))
        = Len(SelectSeq(under[e], LAMBDA c : c.op = "Read" /\ c.n > 0))

\* C4 witness: the handler has finished a read of 0 bytes with EOF and a
\* read of 0 bytes without error, and nothing was logged for them.
C4_Witness ==
    \E e \in Exchanges :
        /\ todo[e] = <<>>
        /\ \E i \in 1..Len(under[e]) :
              under[e][i].op = "Read" /\ under[e][i].n = 0 /\ under[e][i].err = "EOF"
        /\ \E i \in 1..Len(under[e]) :
              under[e][i].op = "Read" /\ under[e][i].n = 0 /\ under[e][i].err = "nil"
        /\ LinesOf(e, "inchunk") = <<>>

\* the returns of the finished calls of kind op, in call order
RECURSIVE RetsOf(_, _, _)
RetsOf(cs, rs, op) ==
    IF rs = <<>> THEN <<>>
    ELSE (IF Head(cs).op = op THEN <<Head(rs)>> ELSE <<>>)
         \o RetsOf(Tail(cs), Tail(rs), op)

HasPrefix(s, pre) == Len(s) >= Len(pre) /\ SubSeq(s, 1, Len(pre)) = pre

\* C5: every Read of the handler made exactly one underlying Read, on a
\* buffer of the same length, and returned to the handler the n, the error
\* and the buffer contents of that underlying read.
C5_ReadTransparent ==
    \A e \in Exchanges :
        LET ur == UnderOf(e, "Read")
            cr == CallsOf(e, "Read")
            rr == RetsOf(calls[e], rets[e], "Read")
        IN /\ Len(ur) = Len(cr)
           /\ Len(rr) <= Len(ur)
           /\ todo[e] = <<>> => Len(rr) = Len(ur)
           /\ \A k \in 1..Len(ur) : Len(ur[k].p) = Len(cr[k].p)
           /\ \A k \in 1..Len(rr) :
                 /\ rr[k].n = ur[k].n
                 /\ rr[k].err = ur[k].err
                 /\ rr[k].buf = ur[k].p

\* C5 witness: a Read returned 2 bytes together with EOF, after its line
\* was logged.
C5_Witness ==
    \E e \in Exchanges :
        /\ todo[e] = <<>>
        /\ \E i \in 1..Len(rets[e]) :
              calls[e][i].op = "Read" /\ rets[e][i].n = 2 /\ rets[e][i].err = "EOF"
        /\ LinesOf(e, "inchunk") # <<>>

\* the first call on the writer was a Write, which commits the header itself
ImplicitHeader(e) ==
    LET ws == SelectSeq(calls[e], LAMBDA c : c.op \in {"Write", "WriteHeader"})
    IN IF ws # <<>> /\ Head(ws).op = "Write" THEN <<StatusOK>> ELSE <<>>

\* C6: the chunks that reached the original writer are the chunks the
\* handler wrote, byte for byte and in order; every finished Write returned
\* the n and the error of the underlying Write; and the codes that reached
\* the original writer are the codes the handler passed to WriteHeader, in
\* order (after the 200 of a first Write without WriteHeader).
C6_WriteTransparent ==
    \A e \in Exchanges :
        LET uw == UnderOf(e, "Write")
            cw == CallsOf(e, "Write")
            rw == RetsOf(calls[e], rets[e], "Write")
            uh == UnderOf(e, "WriteHeader")
            ch == CallsOf(e, "WriteHeader")
        IN /\ Len(uw) = Len(rw)
           /\ Len(uw) <= Len(cw)
           /\ todo[e] = <<>> => Len(uw) = Len(cw)
           /\ \A k \in 1..Len(uw) :
                 /\ uw[k].p = cw[k].p
                 /\ rw[k].n = uw[k].n
                 /\ rw[k].err = uw[k].err
           /\ Len(uh) <= Len(ImplicitHeader(e)) + Len(ch)
           /\ todo[e] = <<>> => Len(uh) = Len(ImplicitHeader(e)) + Len(ch)
           /\ \A k \in 1..Len(uh) :
                 uh[k].code = IF k <= Len(ImplicitHeader(e)) THEN StatusOK
                              ELSE ch[k - Len(ImplicitHeader(e))].code

\* C6 witness: the handler called WriteHeader(404) and then wrote a chunk
\* ending in a newline, which the underlying writer refused.
C6_Witness ==
    \E e \in Exchanges :
        /\ todo[e] = <<>>
        /\ Len(calls[e]) = 2
        /\ calls[e][1].op = "WriteHeader" /\ calls[e][1].code = 404
        /\ calls[e][2].op = "Write" /\ calls[e][2].p = <<"a", "\n">>
        /\ rets[e][2].err = "EPIPE"
        /\ Last(under[e]).p = <<"a", "\n">>

\* C7: the identifier source was invoked once for every exchange that has
\* arrived and never for the others, and every line the exchange has
\* logged or is about to log starts with the identifier the exchange holds
\* now, followed by a space (so the identifier never changed); with no
\* redactor the line reaches the sink with that prefix.
C7_OneIdentifier ==
    \A e \in Exchanges :
        /\ idCalls[e] = IF pc[e] \in {"new", "absent"} THEN 0 ELSE 1
        /\ pc[e] \notin {"new", "absent"} => requestID[e] \in IDPool
        /\ \A i \in 1..Len(log) :
              log[i].ex = e
              => /\ HasPrefix(log[i].raw, requestID[e] \o <<" ">>)
                 /\ redactor = "nil" => HasPrefix(log[i].out, requestID[e] \o <<" ">>)
        /\ \A i \in 1..Len(todo[e]) :
              todo[e][i].k = "log" => HasPrefix(todo[e][i].s, requestID[e] \o <<" ">>)

\* C7 witness: a finished exchange that logged a request line, request
\* headers, both separators, an inbound chunk, a status line and an
\* outbound chunk.
C7_Witness ==
    \E e \in Exchanges :
        /\ pc[e] = "done"
        /\ \A what \in {"reqline", "reqhdr", "reqsep", "inchunk",
                        "status", "respsep", "outchunk"} :
              LinesOf(e, what) # <<>>

\* C8: every line handed to the sink is the redactor applied to the whole
\* formatted line when a redactor is set, and the formatted line itself
\* when none is: this holds for the lines of ServeHTTP, Read, Write and
\* WriteHeader (whose formatted line starts with the identifier, so the
\* redactor sees identifier, direction and payload) and for direct calls
\* of Output, Print, Printf and Println.
C8_EveryLineRedacted ==
    \A i \in 1..Len(log) :
        LET l == log[i]
        IN /\ l.out = IF redactor = "nil" THEN l.raw
                      ELSE [k \in 1..Len(l.raw) |-> ToUpper(l.raw[k])]
           /\ l.ex # 0 => HasPrefix(l.raw, requestID[l.ex])
           /\ (l.ex # 0 /\ redactor = "upper") => l.out[1] = "R"
           /\ l.ex = 0 =>
                 l.raw = CASE l.via = "Output" -> <<"o", "u", "t">>
                           [] l.via = "Print" -> <<"o", "u", "t", "x">>
                           [] l.via = "Printf" -> <<"o", "u", "t", "=", "7">>
                           [] l.via = "Println" -> <<"o", "u", "t", " ", "x", "\n">>

\* C8 witness: with the upper-casing redactor set, the sink holds a line
\* of a direct Print, a line of Printf and a line of Println of an
\* exchange, each different from its formatted text.
C8_Witness ==
    /\ redactor = "upper"
    /\ \E i \in 1..Len(log) : log[i].ex = 0 /\ log[i].via = "Print"
    /\ \E i \in 1..Len(log) : log[i].ex # 0 /\ log[i].via = "Printf"
    /\ \E i \in 1..Len(log) : log[i].what = "inchunk" /\ log[i].via = "Println"
    /\ \A i \in 1..Len(log) : log[i].out # log[i].raw

\* C9: whatever the sink answers, ServeHTTP keeps the delegation to the
\* handler ahead of it and delegates once; a call in progress keeps its
\* underlying call ahead of it; a finished call has made its underlying
\* call and returned its result; and of the direct calls only Output
\* returns the answer of the sink.
C9_SinkFailureHarmless ==
    /\ \A e \in Exchanges :
          /\ pc[e] = "serve"
             => todo[e] # <<>> /\ Last(todo[e]) = DelegateStep /\ handlerCalls[e] = 0
          /\ pc[e] \in {"handler", "done"} => handlerCalls[e] = 1
          /\ (pc[e] = "handler" /\ todo[e] # <<>>)
             => LET c == Last(calls[e])
                IN /\ c.op = "Write" => Last(todo[e]) = UnderWriteStep(c.p)
                   /\ c.op = "WriteHeader" => Last(todo[e]) = UnderWriteHeaderStep(c.code)
                   /\ c.op = "Read" => Last(under[e]).op = "Read"
          /\ todo[e] = <<>> => Len(rets[e]) = Len(calls[e])
          /\ (todo[e] = <<>> /\ calls[e] # <<>>)
             => LET c == Last(calls[e])
                    r == Last(rets[e])
                IN /\ c.op \in {"Read", "Write", "WriteHeader"}
                      => /\ under[e] # <<>>
                         /\ Last(under[e]).op = c.op
                   /\ c.op \in {"Read", "Write"}
                      => r.n = Last(under[e]).n /\ r.err = Last(under[e]).err
                   /\ c.op = "Write" => Last(under[e]).p = c.p
                   /\ c.op = "WriteHeader" => Last(under[e]).code = c.code
                   /\ (c.op = "Flush" /\ request[e].canFlush)
                      => under[e] # <<>> /\ Last(under[e]).op = "Flush"
    /\ lastDirect.ret = IF lastDirect.via = "Output" THEN lastDirect.sink ELSE "none"

\* C9 witness: the sink failed on a line of the exchange (no direct call
\* was made), and the exchange finished after a Write that the underlying
\* writer took whole.
C9_Witness ==
    /\ sinkFailed
    /\ direct = 0
    /\ \E e \in Exchanges :
          /\ pc[e] = "done"
          /\ handlerCalls[e] = 1
          /\ \E i \in 1..Len(calls[e]) :
                /\ calls[e][i].op = "Write"
                /\ rets[e][i].n = 2 /\ rets[e][i].err = "nil"

\* the steps of the calls cs of one exchange taken one after the other,
\* urs being the underlying reads in order and wrote the flag before them
RECURSIVE AloneCalls(_, _, _, _, _)
AloneCalls(id, r, cs, urs, wrote) ==
    IF cs = <<>> THEN <<>>
    ELSE LET c == Head(cs)
         IN CASE c.op = "Read" ->
                   ReadSteps(id, Head(urs).p, Head(urs).n)
                   \o AloneCalls(id, r, Tail(cs), Tail(urs), wrote)
              [] c.op = "Write" ->
                   WriteSteps(id, r, wrote, c.p, c.order)
                   \o AloneCalls(id, r, Tail(cs), urs, TRUE)
              [] c.op = "WriteHeader" ->
                   WriteHeaderSteps(id, r, c.code, c.order)
                   \o AloneCalls(id, r, Tail(cs), urs, TRUE)
              [] OTHER -> AloneCalls(id, r, Tail(cs), urs, wrote)

Texts(steps) == [i \in 1..Len(steps) |-> steps[i].s]

\* the lines exchange e logs when it is served alone, its request headers
\* visited in this order
AloneLines(e, order) ==
    Texts(OutputCalls(ServeSteps(requestID[e], request[e], order)
                      \o AloneCalls(requestID[e], request[e], calls[e],
                                    UnderOf(e, "Read"), FALSE)))

\* the lines of the sink that start with the identifier of exchange e
Carrying(e) ==
    LET ls == SelectSeq(log, LAMBDA l : HasPrefix(l.out, requestID[e] \o <<" ">>))
    IN [i \in 1..Len(ls) |-> ls[i].out]

\* C10: with all exchanges served concurrently, the lines of the sink that
\* carry the identifier of an exchange, followed by the lines its call in
\* progress has still to log, are the lines the exchange logs when served
\* alone (for some order of its request headers); the identifiers of two
\* exchanges differ; and the flag of an exchange is set exactly when its
\* own handler has called Write or WriteHeader.
C10_ExchangesIsolated ==
    \A e \in Exchanges :
        pc[e] \notin {"new", "absent"}
        => /\ \E order \in Orders(request[e].header) :
                 Carrying(e) \o Texts(OutputCalls(todo[e])) = AloneLines(e, order)
           /\ \A x \in Exchanges \ {e} : requestID[x] # requestID[e]
           /\ wroteHeader[e] = (CallsOf(e, "Write") \o CallsOf(e, "WriteHeader") # <<>>)

\* C10 witness: two exchanges have finished; a line of the second lies
\* between the status line and the separator of the first, and the second
\* one read its body but never committed a header.
C10_Witness ==
    \E e1, e2 \in Exchanges :
        /\ e1 # e2
        /\ pc[e1] = "done" /\ pc[e2] = "done"
        /\ wroteHeader[e1] /\ ~wroteHeader[e2]
        /\ CallsOf(e2, "Read") # <<>>
        /\ \E i, j, k \in 1..Len(log) :
              /\ i < j /\ j < k
              /\ log[i].ex = e1 /\ log[i].what = "status"
              /\ log[j].ex = e2
              /\ log[k].ex = e1 /\ log[k].what = "respsep"

\* ---------------------------------------------------------------- C11..C19
\* the lines exchange e has logged, then those its call in progress has
\* still to log, each with its kind and its formatted text
Planned(e) ==
    LET done == SelectSeq(log, LAMBDA l : l.ex = e)
        next == OutputCalls(todo[e])
    IN [i \in 1..Len(done) |-> [what |-> done[i].what, raw |-> done[i].raw]]
       \o [i \in 1..Len(next) |-> [what |-> next[i].what, raw |-> next[i].s]]

\* the (name, position) pairs of the values of a header
Pairs(h) == UNION {{<<name, k>> : k \in 1..Len(h[name])} : name \in DOMAIN h}

\* C11: the lines of an exchange start with the request line
\* '<id> > METHOD target PROTO', then one line per header value, the values
\* of a name one after the other in list order and no line for a name
\* without values, then one blank '<id> >' separator; no other line of the
\* exchange is of these kinds; the handler is invoked once, and only after
\* the whole prefix is in the log.
C11_RequestPrefix ==
    \A e \in Exchanges :
        /\ handlerCalls[e] = IF pc[e] \in {"handler", "done"} THEN 1 ELSE 0
        /\ pc[e] \notin {"new", "absent"}
           => LET T == Planned(e)
                  id == requestID[e]
                  r == request[e]
                  nh == Cardinality(Pairs(r.header))
              IN /\ Len(T) >= nh + 2
                 /\ T[1] = [what |-> "reqline",
                            raw |-> id \o <<" ", ">", " ">> \o r.method \o <<" ">>
                                    \o r.uri \o <<" ">> \o r.proto]
                 /\ \A i \in 2..(nh + 1) : T[i].what = "reqhdr"
                 /\ T[nh + 2] = [what |-> "reqsep", raw |-> id \o <<" ", ">", "\n">>]
                 /\ \A i \in (nh + 3)..Len(T) :
                       T[i].what \notin {"reqline", "reqhdr", "reqsep"}
                 /\ \A name \in DOMAIN r.header :
                       \E start \in 1..(nh + 1) :
                          \A k \in 1..Len(r.header[name]) :
                             /\ start + k <= nh + 1
                             /\ T[start + k].raw
                                = id \o <<" ", ">", " ">> \o name \o <<":", " ">>
                                  \o r.header[name][k]
                 /\ \A name \in DOMAIN r.header, i \in 2..(nh + 1) :
                       r.header[name] = <<>>
                       => ~HasPrefix(T[i].raw, id \o <<" ", ">", " ">> \o name \o <<":">>)
                 /\ handlerCalls[e] = 1
                    => Len(SelectSeq(log, LAMBDA l : l.ex = e)) >= nh + 2

\* C11 witness: a finished exchange whose request had a name with two
\* values and a name with none, and whose handler read a chunk.
C11_Witness ==
    \E e \in Exchanges :
        /\ pc[e] = "done"
        /\ request[e].header = HdrTwoValues
        /\ LinesOf(e, "reqhdr") # <<>>
        /\ LinesOf(e, "inchunk") # <<>>

\* the place of a kind of line in the sequence request line, request
\* headers, blank line, request chunks, response block, response chunks
Rank(what) ==
    CASE what = "reqline" -> 1
      [] what = "reqhdr" -> 2
      [] what = "reqsep" -> 3
      [] what = "inchunk" -> 4
      [] what \in {"status", "resphdr", "respsep"} -> 5
      [] what = "outchunk" -> 6
      [] OTHER -> 0

Block(nv) == <<"status">> \o [i \in 1..nv |-> "resphdr"] \o <<"respsep">>

\* the kinds of the lines the calls cs cause, call after call: urs are the
\* underlying reads of the Reads among them, wrote tells whether a block
\* was logged before them
RECURSIVE KindsOf(_, _, _, _)
KindsOf(cs, urs, wrote, nv) ==
    IF cs = <<>> THEN <<>>
    ELSE LET c == Head(cs)
         IN CASE c.op = "Read" ->
                   (IF Head(urs).n > 0 THEN <<"inchunk">> ELSE <<>>)
                   \o KindsOf(Tail(cs), Tail(urs), wrote, nv)
              [] c.op = "WriteHeader" ->
                   Block(nv) \o KindsOf(Tail(cs), urs, TRUE, nv)
              [] c.op = "Write" ->
                   (IF wrote THEN <<>> ELSE Block(nv)) \o <<"outchunk">>
                   \o KindsOf(Tail(cs), urs, TRUE, nv)
              [] OTHER -> KindsOf(Tail(cs), urs, wrote, nv)

ChunkText(id, dir, payload) == id \o <<" ", dir, " ">> \o payload \o <<"\n">>

\* C13: an underlying read that returned n > 0 bytes with an error has
\* exactly one inbound chunk line, whose payload is the n bytes read, and
\* that line is in the log when the Read returns; the Read returns that n
\* and that error, and every error a Read returns is the error of its own
\* underlying read.
C13_ShortReadWithError ==
    \A e \in Exchanges :
        LET ur == UnderOf(e, "Read")
            rr == RetsOf(calls[e], rets[e], "Read")
            got == SelectSeq(ur, LAMBDA u : u.n > 0)
            il == SelectSeq(Planned(e), LAMBDA t : t.what = "inchunk")
            returned == SelectSeq(SubSeq(ur, 1, Len(rr)), LAMBDA u : u.n > 0)
        IN /\ Len(il) = Len(got)
           /\ \A j \in 1..Len(got) :
                 got[j].err # "nil"
                 => il[j].raw = ChunkText(requestID[e], ">",
                                          SubSeq(got[j].p, 1, got[j].n))
           /\ Len(LinesOf(e, "inchunk")) >= Len(returned)
           /\ \A k \in 1..Len(rr) :
                 /\ (ur[k].n > 0 /\ ur[k].err # "nil")
                    => rr[k].n = ur[k].n /\ rr[k].err = ur[k].err
                 /\ rr[k].err # "nil" => rr[k].err = ur[k].err

\* C13 witness: a Read returned one byte of a longer buffer with an error
\* that is not the end of the stream, and the next Read returned two bytes
\* with the end of the stream; both lines are in the log.
C13_Witness ==
    \E e \in Exchanges :
        /\ todo[e] = <<>>
        /\ Len(rets[e]) = 2
        /\ calls[e][1].op = "Read" /\ rets[e][1].n = 1 /\ rets[e][1].err = "ERR"
        /\ calls[e][2].op = "Read" /\ rets[e][2].n = 2 /\ rets[e][2].err = "EOF"
        /\ Len(LinesOf(e, "inchunk")) = 2

\* the payload of a chunk line of exchange e: what lies between the
\* identifier with its direction marker and the newline Println adds
PayloadOf(e, raw) == SubSeq(raw, Len(requestID[e]) + 4, Len(raw) - 1)

\* C14: the outbound chunk lines of an exchange are, in order, those of
\* its Writes; the payload of the line of a Write of p, followed by a
\* newline, is p when p ends with a newline, and the payload is p itself
\* otherwise; and the chunk that reaches the original writer is p.
C14_OneNewlineStripped ==
    \A e \in Exchanges :
        LET cw == CallsOf(e, "Write")
            uw == UnderOf(e, "Write")
            ol == SelectSeq(Planned(e), LAMBDA t : t.what = "outchunk")
        IN /\ Len(ol) = Len(cw)
           /\ \A k \in 1..Len(cw) :
                 LET p == cw[k].p
                     q == PayloadOf(e, ol[k].raw)
                 IN /\ HasPrefix(ol[k].raw, requestID[e] \o <<" ", "<", " ">>)
                    /\ Last(ol[k].raw) = "\n"
                    /\ IF p # <<>> /\ Last(p) = "\n" THEN q \o <<"\n">> = p ELSE q = p
           /\ \A k \in 1..Len(uw) : uw[k].p = cw[k].p

\* C14 witness: the handler wrote a chunk of two newlines and then a chunk
\* without newline; the first line holds one newline as payload, and both
\* chunks reached the original writer whole.
C14_Witness ==
    \E e \in Exchanges :
        /\ todo[e] = <<>>
        /\ Len(calls[e]) = 2
        /\ calls[e][1].op = "Write" /\ calls[e][1].p = <<"\n", "\n">>
        /\ calls[e][2].op = "Write" /\ calls[e][2].p = <<"a">>
        /\ LinesOf(e, "outchunk")[1].raw = requestID[e] \o <<" ", "<", " ", "\n", "\n">>
        /\ UnderOf(e, "Write")[1].p = <<"\n", "\n">>
        /\ UnderOf(e, "Write")[2].p = <<"a">>

\* C15: the inbound chunk lines of an exchange are, in order, those of its
\* underlying reads that returned n > 0, each with the bytes p[:n] of its
\* own read as payload; the outbound chunk lines are, in order, those of
\* its Writes, the line of a non-empty chunk holding that chunk; and the
\* chunk lines of both directions follow one another as the calls did.
C15_ChunkLinePerCall ==
    \A e \in Exchanges :
        LET T == Planned(e)
            id == requestID[e]
            got == SelectSeq(UnderOf(e, "Read"), LAMBDA u : u.n > 0)
            cw == CallsOf(e, "Write")
            il == SelectSeq(T, LAMBDA t : t.what = "inchunk")
            ol == SelectSeq(T, LAMBDA t : t.what = "outchunk")
            chunk(w) == w \in {"inchunk", "outchunk"}
        IN /\ Len(il) = Len(got)
           /\ \A j \in 1..Len(got) :
                 il[j].raw = id \o <<" ", ">", " ">> \o SubSeq(got[j].p, 1, got[j].n)
                             \o <<"\n">>
           /\ Len(ol) = Len(cw)
           /\ \A k \in 1..Len(cw) :
                 cw[k].p # <<>>
                 => ol[k].raw = id \o <<" ", "<", " ">> \o cw[k].p
                                \o (IF Last(cw[k].p) = "\n" THEN <<>> ELSE <<"\n">>)
           /\ SelectSeq([i \in 1..Len(T) |-> T[i].what], chunk)
              = SelectSeq(KindsOf(calls[e], UnderOf(e, "Read"), FALSE, 0), chunk)

\* C15 witness: the handler read one byte into a longer buffer, then read
\* two bytes; the log holds the line of the one byte and then the line of
\* the two bytes.
C15_Witness ==
    \E e \in Exchanges :
        /\ todo[e] = <<>>
        /\ Len(UnderOf(e, "Read")) = 2
        /\ UnderOf(e, "Read")[1].n = 1 /\ UnderOf(e, "Read")[1].err = "nil"
        /\ UnderOf(e, "Read")[2].n = 2
        /\ Len(LinesOf(e, "inchunk")) = 2
        /\ LinesOf(e, "inchunk")[1].raw = requestID[e] \o <<" ", ">", " ", "a", "\n">>
        /\ LinesOf(e, "inchunk")[2].raw = requestID[e] \o <<" ", ">", " ", "a", "b", "\n">>

\* C16: the original writer was flushed once for every Flush of the
\* handler when it is a Flusher and never when it is not; Flush does not
\* set the flag, which is set exactly when the handler has called Write or
\* WriteHeader; the original writer gets no Write and no WriteHeader but
\* those of the handler's Write and WriteHeader calls; and an exchange whose
\* handler only flushed has no line but its request prefix.
C16_FlushOnlyForwards ==
    \A e \in Exchanges :
        LET nf == Len(CallsOf(e, "Flush"))
            cw == CallsOf(e, "Write")
            ch == CallsOf(e, "WriteHeader")
            nh == Cardinality(Pairs(request[e].header))
        IN /\ Len(UnderOf(e, "Flush")) = IF request[e].canFlush THEN nf ELSE 0
           /\ wroteHeader[e] = (cw \o ch # <<>>)
           /\ Len(UnderOf(e, "Write")) <= Len(cw)
           /\ Len(UnderOf(e, "WriteHeader")) <= Len(ImplicitHeader(e)) + Len(ch)
           /\ (pc[e] \in {"handler", "done"} /\ nf = Len(calls[e]))
              => /\ Len(SelectSeq(log, LAMBDA l : l.ex = e)) = nh + 2
                 /\ todo[e] = <<>>
                 /\ \A i \in 1..Len(log) :
                       log[i].ex = e => log[i].what \in {"reqline", "reqhdr", "reqsep"}
                 /\ Len(under[e]) = Len(UnderOf(e, "Flush"))
                 /\ Len(rets[e]) = nf

\* C16 witness: a finished exchange whose handler flushed twice a writer
\* that is a Flusher, and did nothing else.
C16_Witness ==
    \E e \in Exchanges :
        /\ pc[e] = "done"
        /\ request[e].canFlush
        /\ Len(calls[e]) = 2
        /\ calls[e][1].op = "Flush" /\ calls[e][2].op = "Flush"
        /\ Len(under[e]) = 2
        /\ ~wroteHeader[e]

\* the calls among cs that go to the response writer's Write or WriteHeader
ToWriter(cs) == SelectSeq(cs, LAMBDA c : c.op \in {"Write", "WriteHeader"})

\* what C17 says of every state: see C17_ImplicitCommit
ImplicitCommitOnce ==
    \A e \in Exchanges :
        LET ws == ToWriter(calls[e])
            ch == CallsOf(e, "WriteHeader")
            uw == ToWriter(under[e])
            uh == UnderOf(e, "WriteHeader")
            sl == SelectSeq(Planned(e), LAMBDA t : t.what = "status")
            first == ws # <<>> /\ Head(ws).op = "Write"
        IN /\ Len(sl) = Len(ch) + (IF first THEN 1 ELSE 0)
           /\ first
              => /\ sl[1].raw = requestID[e] \o <<" ", "<", " ">> \o request[e].proto
                                \o <<" ", "2", "0", "0", " ", "O", "K">>
                 /\ uw # <<>> => uw[1].op = "WriteHeader" /\ uw[1].code = 200
                 /\ \A k \in 2..Len(uh) : uh[k].code = ch[k - 1].code
           /\ (ws # <<>> /\ Head(ws).op = "WriteHeader")
              => /\ Len(uh) <= Len(ch)
                 /\ \A k \in 1..Len(uh) : uh[k].code = ch[k].code
           /\ uw # <<>> => uw[1].op = "WriteHeader"

\* C17: when the first call on the writer is a Write, the first status
\* line of the exchange is '<id> < PROTO 200 OK' and the original writer
\* gets WriteHeader(200) before any chunk; the exchange has one status
\* line for that Write and one for every WriteHeader of the handler, and
\* the original writer gets no WriteHeader but these, so the implicit
\* commit happens at most once and never after a WriteHeader of the
\* handler; and a flag that is set stays set.
C17_ImplicitCommit ==
    /\ []ImplicitCommitOnce
    /\ [][\A e \in Exchanges : wroteHeader[e] => wroteHeader'[e]]_vars

\* C17 witness: the handler wrote twice and called nothing else: one
\* status line, and the original writer got WriteHeader(200) and the two
\* chunks.
C17_Witness ==
    \E e \in Exchanges :
        /\ todo[e] = <<>>
        /\ Len(calls[e]) = 2
        /\ calls[e][1].op = "Write" /\ calls[e][2].op = "Write"
        /\ Len(LinesOf(e, "status")) = 1
        /\ Len(under[e]) = 3
        /\ under[e][1].op = "WriteHeader" /\ under[e][1].code = 200
        /\ under[e][2].op = "Write" /\ under[e][3].op = "Write"
        /\ wroteHeader[e]

\* the handler of exchange e has returned and never called Write or
\* WriteHeader
ReturnedSilent(e) == pc[e] = "done" /\ ToWriter(calls[e]) = <<>>

\* the log of exchange e holds the request prefix and one inbound chunk
\* line for every read that returned n > 0, and no line with the outbound
\* marker
OnlyRequestSide(e) ==
    LET mine == SelectSeq(log, LAMBDA l : l.ex = e)
        nh == Cardinality(Pairs(request[e].header))
        got == SelectSeq(UnderOf(e, "Read"), LAMBDA u : u.n > 0)
    IN /\ Len(mine) = nh + 2 + Len(got)
       /\ \A i \in 1..Len(mine) :
             /\ mine[i].raw[Len(requestID[e]) + 2] = ">"
             /\ mine[i].what = IF i = 1 THEN "reqline"
                               ELSE IF i <= nh + 1 THEN "reqhdr"
                               ELSE IF i = nh + 2 THEN "reqsep"
                               ELSE "inchunk"

\* C18 as stated: when the handler has returned without a Write or a
\* WriteHeader, the exchange has no outbound line, its log is the request
\* prefix and the lines of its non-empty reads, and no call at all has
\* reached the original response writer.
C18_NothingForwarded ==
    \A e \in Exchanges :
        ReturnedSilent(e)
        => /\ OnlyRequestSide(e)
           /\ SelectSeq(under[e], LAMBDA u : u.op # "Read") = <<>>

\* C18, amended: when the handler has returned without a Write or a
\* WriteHeader, the exchange has no outbound line, its log is the request
\* prefix and the lines of its non-empty reads, and no Write and no
\* WriteHeader has reached the original response writer: it got the
\* Flushes of the handler and nothing else.
C18_NoResponseWithoutWrite ==
    \A e \in Exchanges :
        ReturnedSilent(e)
        => /\ OnlyRequestSide(e)
           /\ ToWriter(under[e]) = <<>>
           /\ \A i \in 1..Len(under[e]) : under[e][i].op \in {"Read", "Flush"}
           /\ ~wroteHeader[e]

\* C18 witness: the handler read a chunk, flushed a writer that is a
\* Flusher and returned.
C18_Witness ==
    \E e \in Exchanges :
        /\ ReturnedSilent(e)
        /\ Len(LinesOf(e, "inchunk")) = 1
        /\ UnderOf(e, "Flush") # <<>>

\* C19: a chunk reaches the original writer only after its line is in the
\* log; whatever the original writer answers, the line of the Write of p
\* holds all of p but one trailing newline; and the line of a read holds
\* the n bytes the underlying read returned and no more.
C19_LoggedBeforeForwarded ==
    \A e \in Exchanges :
        LET cw == CallsOf(e, "Write")
            uw == UnderOf(e, "Write")
            ol == LinesOf(e, "outchunk")
            got == SelectSeq(UnderOf(e, "Read"), LAMBDA u : u.n > 0)
            il == SelectSeq(Planned(e), LAMBDA t : t.what = "inchunk")
        IN /\ Len(uw) <= Len(ol)
           /\ \A k \in 1..Len(uw) :
                 LET q == PayloadOf(e, ol[k].raw)
                     p == cw[k].p
                 IN /\ HasPrefix(p, q)
                    /\ Len(q) = IF p # <<>> /\ Last(p) = "\n" THEN Len(p) - 1 ELSE Len(p)
                    /\ uw[k].n \in 0..Len(p)
           /\ \A j \in 1..Len(il) :
                 LET q == PayloadOf(e, il[j].raw)
                 IN Len(q) = got[j].n /\ HasPrefix(got[j].p, q)

\* C19 witness: the original writer refused a chunk without newline and
\* took none of its bytes; the Write returned that, and the line with the
\* whole chunk is in the log.
C19_Witness ==
    \E e \in Exchanges :
        /\ todo[e] = <<>>
        /\ calls[e] # <<>>
        /\ Last(calls[e]).op = "Write" /\ Last(calls[e]).p = <<"a">>
        /\ Last(rets[e]).n = 0 /\ Last(rets[e]).err = "EPIPE"
        /\ Last(log).raw = requestID[e] \o <<" ", "<", " ", "a", "\n">>

====
